---- MODULE Spec2Model ----
(***************************************************************************)
(* clash-speedtest: the speed measurement engine (speedtester.go) and the  *)
(* classification / ranking of its results (main.go).                      *)
(*                                                                         *)
(* Durations are integers (Go's time.Duration); float64 values (packet     *)
(* loss, speeds, thresholds) are exact rationals [num, den] in lowest      *)
(* terms, with den = 0 standing for the IEEE results of a division by 0.   *)
(***************************************************************************)
EXTENDS Integers, Sequences, FiniteSets, Bags, TLC

(***************************************************************************)
(* Bounds of the model.                                                    *)
(***************************************************************************)
\* largest Config.Concurrent explored
MaxConcurrent == 2
\* longest Config.ExtraConnectURL explored
MaxURLs == 3
\* Config.DownloadSize and Config.UploadSize explored, in bytes
MaxTransferSize == 2
\* duration units per second (Duration.Seconds() divides by it)
Second == 10
\* largest duration of one chunk transfer in the runs of the throughput phase
MaxChunkTime == 2
\* largest latency sample handed to calculateLatencyStats on its own
MaxSample == 3
\* most proxies one run of main ranks
MaxProxies == 3

\* entries in the proxies list of a configuration file
MaxEntries == 2

\* entries in the list the -c flag gives
MaxPathEntries == 2

(***************************************************************************)
(* Program constants.                                                      *)
(***************************************************************************)
\* testLatency: for i := 0; i < 6; i++
LatencyPings == 6
\* testExtraLatencyAndSpeed: testTimes := 6
testTimes == 6
\* calculateLatencyStats: float64(failedPings) / 6.0 * 100
StatsSamples == 6

(***************************************************************************)
(* float64 as exact rationals.                                             *)
(***************************************************************************)
RECURSIVE GCD(_, _)
GCD(a, b) == IF b = 0 THEN a ELSE GCD(b, a % b)

NaN == [num |-> 0, den |-> 0]

PosInf == [num |-> 1, den |-> 0]

Zero == [num |-> 0, den |-> 1]

\* n / d in float64, n >= 0 and d >= 0
FloatDiv(n, d) ==
  IF d = 0 THEN (IF n = 0 THEN NaN ELSE PosInf)
  ELSE LET g == GCD(n, d) IN [num |-> n \div g, den |-> d \div g]

IsFinite(x) == x.den # 0

\* a >= b in float64 (false when either side is NaN)
FloatGE(a, b) ==
  IF a = NaN \/ b = NaN THEN FALSE
  ELSE IF a.den = 0 THEN TRUE
  ELSE IF b.den = 0 THEN FALSE
  ELSE a.num * b.den >= b.num * a.den

\* a > b in float64
FloatGT(a, b) ==
  IF a = NaN \/ b = NaN THEN FALSE
  ELSE IF b.den = 0 THEN FALSE
  ELSE IF a.den = 0 THEN TRUE
  ELSE a.num * b.den > b.num * a.den

\* float64(bytes) / duration.Seconds()
SpeedOf(bytes, duration) == FloatDiv(bytes * Second, duration)

RECURSIVE SumSeq(_)
SumSeq(s) == IF s = <<>> THEN 0 ELSE Head(s) + SumSeq(Tail(s))

RECURSIVE SumSquaredDiff(_, _)
SumSquaredDiff(s, avg) ==
  IF s = <<>> THEN 0
  ELSE (Head(s) - avg) * (Head(s) - avg) + SumSquaredDiff(Tail(s), avg)

\* time.Duration(math.Sqrt(v)): the largest integer whose square is at most v
ISqrt(v) == CHOOSE r \in 0..v : r * r <= v /\ (r + 1) * (r + 1) > v

(***************************************************************************)
(* Statistics: calculateLatencyStats.                                      *)
(***************************************************************************)
PacketLossOf(failedPings) == FloatDiv(failedPings * 100, StatsSamples)

\* the sums divided by the number of pings, not by the number of samples
calculateLatencyStatsOverPings(lats, failed) ==
  LET avg == SumSeq(lats) \div StatsSamples
      variance == SumSquaredDiff(lats, avg) \div StatsSamples
  IN [avgLatency |-> avg, jitter |-> ISqrt(variance),
      packetLoss |-> PacketLossOf(failed)]

calculateLatencyStats(lats, failed) ==
  IF Len(lats) = 0
  THEN [avgLatency |-> 0, jitter |-> 0, packetLoss |-> PacketLossOf(failed)]
  ELSE LET avg == SumSeq(lats) \div Len(lats)
           variance == SumSquaredDiff(lats, avg) \div Len(lats)
       IN [avgLatency |-> avg, jitter |-> ISqrt(variance),
           packetLoss |-> PacketLossOf(failed)]

Hundred == [num |-> 100, den |-> 1]

(***************************************************************************)
(* The engine: one call of testProxy, request by request.                  *)
(***************************************************************************)
VARIABLES
  config,               \* *Config after New
  pc,                   \* where testProxy's own goroutine stands
  result,               \* the *Result testProxy builds
  i,                    \* loop counter of the loop pc stands in
  latencies,            \* latencies of the running latency loop
  failedPings,          \* failedPings of the running latency loop
  urlIdx,               \* position in ExtraConnectURL (range loop)
  extraLatencyResult,   \* map[string]*latencyResult of testExtraLatencyAndSpeed
  extraBytes,           \* testExtraLatencyAndSpeed's totalDownloadBytes
  extraDuration,        \* testExtraLatencyAndSpeed's totalDownloadDuration
  wg,                   \* sync.WaitGroup counter
  dlTask,               \* download goroutines: "ready", "inflight", "done"
  ulTask,               \* upload goroutines
  downloadResults,      \* buffered channel, oldest first
  uploadResults,        \* buffered channel, oldest first
  acc,                  \* testProxy's totals and counts (lines 310-312)
  requests,             \* observer: requests issued, per kind
  deposited,            \* observer: bags of outcomes sent on the two channels
  net,                  \* the network: the answers requests can get
  flags,                \* main: the command-line flags
  proxies,              \* main: Results TestProxies has yet to hand over
  results,              \* main: the results slice
  handed,               \* observer: Results the callback has been called with
  mpc,                  \* main: "testing", then "sorted"
  statsIn,              \* arguments of a call of calculateLatencyStats
  statsOut,             \* what the call returned, once it has
  toTest,               \* TestProxies: proxies of the map not yet ranged over
  current,              \* TestProxies: the proxy under test, "" when none is
  called,               \* observer: callback calls, per proxy
  disk,                 \* the files: what each configuration path holds
  actualPaths,          \* main: the paths the loop has yet to visit
  allProxies,           \* main: what LoadProxies returned for the path
  untested,             \* TestProxies: keys of the map not yet ranged over
  tested,               \* observer: <<path, key>> of the proxies tested
  written,              \* what doSaveConfig wrote, per output flag
  reloaded,             \* LoadProxies on a written file
  writes,               \* observer: the os.WriteFile calls and how they ended
  gpc,                  \* where getAllConfigPath stands
  absSkipPaths,         \* getAllConfigPath's _skipPaths
  cfgPaths,             \* getAllConfigPath's cfgPaths
  cfgIdx,               \* entries of cfgPaths the range loop is done with
  resultPaths           \* getAllConfigPath's resultPaths

engineVars ==
  <<config, pc, result, i, latencies, failedPings, urlIdx, extraLatencyResult,
    extraBytes, extraDuration, wg, dlTask, ulTask, downloadResults,
    uploadResults, acc, requests, deposited, net>>

mainVars == <<flags, proxies, results, handed, mpc>>

statsVars == <<statsIn, statsOut>>

runVars == <<toTest, current, called>>

loadVars ==
  <<disk, actualPaths, allProxies, untested, tested, written, reloaded, writes>>

pathVars == <<gpc, absSkipPaths, cfgPaths, cfgIdx, resultPaths>>

\* what the engine's steps leave alone
hostVars == <<mainVars, statsVars, runVars, loadVars, pathVars>>

vars == <<engineVars, mainVars, statsVars, runVars, loadVars, pathVars>>

DefaultDownloadSize == 100 * 1024 * 1024

DefaultUploadSize == 10 * 1024 * 1024

\* New: non-positive settings are replaced by the defaults
New(c) ==
  [c EXCEPT !.Concurrent = IF c.Concurrent <= 0 THEN 1 ELSE c.Concurrent,
            !.DownloadSize = IF c.DownloadSize <= 0 THEN DefaultDownloadSize
                             ELSE c.DownloadSize,
            !.UploadSize = IF c.UploadSize <= 0 THEN DefaultUploadSize
                           ELSE c.UploadSize]

\* URLs are told apart by number; list k holds the URLs 1..k, in that order
URLList(k) == [n \in 1..k |-> n]

RawConfigs ==
  [Concurrent : 0..MaxConcurrent,
   DownloadSize : {MaxTransferSize},
   UploadSize : {MaxTransferSize},
   ExtraConnectURL : {URLList(k) : k \in 0..MaxURLs},
   ExtraDownloadURL : {"", "extra"}]

\* &Result{ProxyName, ProxyType, ProxyConfig}: every measured field is zero
NewResult ==
  [Latency |-> 0, Jitter |-> 0, PacketLoss |-> Zero,
   DownloadSize |-> 0, DownloadTime |-> 0, DownloadSpeed |-> Zero,
   UploadSize |-> 0, UploadTime |-> 0, UploadSpeed |-> Zero,
   ExtraURLConnectivity |-> FALSE, ExtraURLOpenSpeed |-> Zero,
   ExtraDownloadSpeed |-> Zero]

\* The observer's record of the requests issued: how many of each kind, how
\* many of them failed (an error or a status other than 200), and for each
\* auxiliary URL whether every request to it so far failed.  extraFailed is
\* kept only while testExtraLatencyAndSpeed runs.  unclosed is the number of
\* responses the last request of the running loop obtained and left open.
NoRequests ==
  [primary |-> 0, primaryFailed |-> 0,
   extra |-> [u \in 1..MaxURLs |-> 0],
   extraFailed |-> [u \in 1..MaxURLs |-> 0],
   extraAllFailed |-> [u \in 1..MaxURLs |-> TRUE],
   extraDownload |-> 0, extraDownloadFailed |-> 0,
   download |-> 0, upload |-> 0, unclosed |-> 0]

Failed(o) == IF o.kind = "ok" THEN 0 ELSE 1

\* a request that did not end in an error has a response, whose body is open
Opened(o) == IF o.kind = "err" THEN 0 ELSE 1

\* testLatency line 366: resp.Body.Close() before the status is looked at
testLatencyClosed(o) == Opened(o)

\* testExtraLatencyAndSpeed line 413: resp.Body.Close() ends the iteration
\* of a 200 answer; the continue of a status other than 200 (line 406) skips it
testExtraClosed(o) == IF o.kind = "ok" THEN 1 ELSE 0

NoAcc ==
  [totalDownloadBytes |-> 0, totalDownloadTime |-> 0, downloadCount |-> 0,
   totalUploadBytes |-> 0, totalUploadTime |-> 0, uploadCount |-> 0]

\* a nil *downloadResult
Nil == [ok |-> FALSE, bytes |-> 0, duration |-> 0]

DownloadResult(b, d) == [ok |-> TRUE, bytes |-> b, duration |-> d]

\* what one GET of a latency loop can come to: an error, a status other than
\* 200, or 200 after `latency`, the body read by `elapsed` with `bytes` bytes
ProbeOutcomes ==
  {[kind |-> "err", latency |-> 0, elapsed |-> 0, bytes |-> 0],
   [kind |-> "status", latency |-> 0, elapsed |-> 0, bytes |-> 0]}
  \cup {[kind |-> "ok", latency |-> t[1], elapsed |-> t[2], bytes |-> b] :
          t \in {x \in net.durations \X net.durations : x[2] >= x[1]},
          b \in net.bodies}

\* the primary server's /__down?bytes=0 answers with an empty body
PingOutcomes ==
  {[kind |-> "err", latency |-> 0, elapsed |-> 0, bytes |-> 0],
   [kind |-> "status", latency |-> 0, elapsed |-> 0, bytes |-> 0]}
  \cup {[kind |-> "ok", latency |-> d, elapsed |-> d, bytes |-> 0] :
          d \in net.durations}

\* what testDownload / testUpload can return for a transfer of `size` bytes:
\* nil, or the bytes copied (all of them, or fewer when the copy is cut short,
\* whose error the code ignores) and the time taken
TransferOutcomes(size) ==
  {Nil} \cup {DownloadResult(b, d) :
                b \in IF net.partial THEN 0..size ELSE {size},
                d \in net.durations}

\* Networks of the full runs: every answered request takes one duration
\* unit, and the auxiliary pages are all empty or all one byte long
UniformNets ==
  {[durations |-> {1}, bodies |-> {b}, partial |-> FALSE] : b \in {0, 1}}

EngineInit ==
  /\ net \in UniformNets
  /\ config \in {New(c) : c \in RawConfigs}
  /\ pc = "testLatency"
  /\ result = NewResult
  /\ i = 0
  /\ latencies = <<>>
  /\ failedPings = 0
  /\ urlIdx = 0
  /\ extraLatencyResult = <<>>
  /\ extraBytes = 0
  /\ extraDuration = 0
  /\ wg = 0
  /\ dlTask = <<>>
  /\ ulTask = <<>>
  /\ downloadResults = <<>>
  /\ uploadResults = <<>>
  /\ acc = NoAcc
  /\ requests = NoRequests
  /\ deposited = [download |-> EmptyBag, upload |-> EmptyBag]

(***************************************************************************)
(* testLatency (the primary server).                                       *)
(***************************************************************************)
\* one iteration of testLatency's loop, given what the GET came to
testLatencyPing(lats, failed, o) ==
  IF o.kind = "err" THEN [latencies |-> lats, failedPings |-> failed + 1]
  ELSE IF o.kind = "ok"
       THEN [latencies |-> Append(lats, o.latency), failedPings |-> failed]
       ELSE [latencies |-> lats, failedPings |-> failed + 1]

\* the loss taken for a fraction of 1 instead of a percentage
latencyTestFailedAsFraction(r) == r.PacketLoss = FloatDiv(1, 1)

\* testProxy: if result.PacketLoss == 100
latencyTestFailed(r) == r.PacketLoss = Hundred

testLatencyProbe ==
  /\ pc = "testLatency"
  /\ i < LatencyPings
  /\ \E o \in PingOutcomes :
       LET n == testLatencyPing(latencies, failedPings, o)
       IN /\ latencies' = n.latencies
          /\ failedPings' = n.failedPings
          /\ requests' = [requests EXCEPT
                            !.primary = @ + 1,
                            !.primaryFailed = @ + Failed(o),
                            !.unclosed = Opened(o) - testLatencyClosed(o)]
  /\ i' = i + 1
  /\ UNCHANGED <<config, pc, result, urlIdx, extraLatencyResult, extraBytes,
                 extraDuration, wg, dlTask, ulTask, downloadResults,
                 uploadResults, acc, deposited, net, hostVars>>

\* testLatency returns; testProxy lines 254-262, and the entry of
\* testExtraLatencyAndSpeed (lines 378-389)
testLatencyReturn ==
  /\ pc = "testLatency"
  /\ i = LatencyPings
  /\ LET lr == calculateLatencyStats(latencies, failedPings)
         r == [result EXCEPT !.Latency = lr.avgLatency, !.Jitter = lr.jitter,
                             !.PacketLoss = lr.packetLoss]
     IN /\ result' = r
        /\ pc' = IF latencyTestFailed(r) THEN "done"
                 ELSE IF Len(config.ExtraConnectURL) > 0 THEN "testExtra"
                 ELSE "testExtraDownload"
        /\ urlIdx' = IF ~latencyTestFailed(r) /\ Len(config.ExtraConnectURL) > 0
                     THEN 1 ELSE 0
  /\ i' = 0
  /\ latencies' = <<>>
  /\ failedPings' = 0
  /\ UNCHANGED <<config, extraLatencyResult, extraBytes, extraDuration, wg,
                 dlTask, ulTask, downloadResults, uploadResults, acc, requests,
                 deposited, net, hostVars>>

(***************************************************************************)
(* testExtraLatencyAndSpeed and what testProxy does with its results.      *)
(***************************************************************************)
existConnectivityProblem(latencyResultMap) ==
  IF Cardinality(DOMAIN latencyResultMap) = 0 THEN FALSE
  ELSE \E u \in DOMAIN latencyResultMap :
         latencyResultMap[u].packetLoss = Hundred

\* a status other than 200 not counted as a failed ping
testExtraPingStatusLost(lats, failed, bytes, duration, o) ==
  IF o.kind = "err"
  THEN [latencies |-> lats, failedPings |-> failed + 1,
        bytes |-> bytes, duration |-> duration]
  ELSE IF o.kind = "ok"
       THEN [latencies |-> Append(lats, o.latency), failedPings |-> failed,
             bytes |-> bytes + o.bytes, duration |-> duration + o.elapsed]
       ELSE [latencies |-> lats, failedPings |-> failed,
             bytes |-> bytes, duration |-> duration]

\* one iteration of the inner loop of testExtraLatencyAndSpeed
testExtraPing(lats, failed, bytes, duration, o) ==
  IF o.kind = "err"
  THEN [latencies |-> lats, failedPings |-> failed + 1,
        bytes |-> bytes, duration |-> duration]
  ELSE IF o.kind = "ok"
       THEN [latencies |-> Append(lats, o.latency), failedPings |-> failed,
             bytes |-> bytes + o.bytes, duration |-> duration + o.elapsed]
       ELSE [latencies |-> lats, failedPings |-> failed + 1,
             bytes |-> bytes, duration |-> duration]

\* the early return lost: the loop goes on to the next URL
extraURLUnreachableIgnored(lr) == FALSE

\* if extraLatencyResult[url].packetLoss == 100 { return ..., nil, nil }
extraURLUnreachable(lr) == lr.packetLoss = Hundred

MapPut(m, k, v) == [x \in DOMAIN m \cup {k} |-> IF x = k THEN v ELSE m[x]]

\* testProxy lines 265-276: the Result after testExtraLatencyAndSpeed returned
afterExtra(r, m, open, dl) ==
  IF existConnectivityProblem(m)
  THEN [r EXCEPT !.ExtraURLConnectivity = FALSE]
  ELSE [r EXCEPT !.ExtraURLConnectivity = TRUE,
                 !.ExtraURLOpenSpeed =
                    IF open.ok THEN SpeedOf(open.bytes, open.duration) ELSE @,
                 !.ExtraDownloadSpeed =
                    IF dl.ok THEN SpeedOf(dl.bytes, dl.duration) ELSE @]

\* testProxy returning whatever testExtraLatencyAndSpeed found
pcAfterExtraReturns(m) == "done"

\* testProxy line 265: return result, or go on to the throughput phase
pcAfterExtra(m) ==
  IF existConnectivityProblem(m) THEN "done" ELSE "startDownload"

testExtraProbe ==
  /\ pc = "testExtra"
  /\ i < testTimes
  /\ \E o \in ProbeOutcomes :
       LET n == testExtraPing(latencies, failedPings, extraBytes, extraDuration, o)
       IN /\ latencies' = n.latencies
          /\ failedPings' = n.failedPings
          /\ extraBytes' = n.bytes
          /\ extraDuration' = n.duration
          /\ requests' =
               [requests EXCEPT
                  !.extra[config.ExtraConnectURL[urlIdx]] = @ + 1,
                  !.extraFailed[config.ExtraConnectURL[urlIdx]] = @ + Failed(o),
                  !.extraAllFailed[config.ExtraConnectURL[urlIdx]] =
                     @ /\ o.kind # "ok",
                  !.unclosed = Opened(o) - testExtraClosed(o)]
  /\ i' = i + 1
  /\ UNCHANGED <<config, pc, result, urlIdx, extraLatencyResult, wg, dlTask,
                 ulTask, downloadResults, uploadResults, acc, deposited, net, hostVars>>

\* lines 415-420: the URL's statistics, the early return, the next URL
testExtraURLDone ==
  /\ pc = "testExtra"
  /\ i = testTimes
  /\ LET lr == calculateLatencyStats(latencies, failedPings)
         m == MapPut(extraLatencyResult, config.ExtraConnectURL[urlIdx], lr)
     IN IF extraURLUnreachable(lr)
        THEN /\ result' = afterExtra(result, m, Nil, Nil)
             /\ pc' = pcAfterExtra(m)
             /\ extraLatencyResult' = <<>>
             /\ urlIdx' = 0
             /\ extraBytes' = 0
             /\ extraDuration' = 0
             /\ requests' = [requests EXCEPT !.extraFailed = NoRequests.extraFailed,
                                             !.unclosed = 0]
        ELSE /\ result' = result
             /\ extraLatencyResult' = m
             /\ requests' = [requests EXCEPT !.unclosed = 0]
             /\ UNCHANGED <<extraBytes, extraDuration>>
             /\ IF urlIdx < Len(config.ExtraConnectURL)
                THEN pc' = pc /\ urlIdx' = urlIdx + 1
                ELSE pc' = "testExtraDownload" /\ urlIdx' = 0
  /\ i' = 0
  /\ latencies' = <<>>
  /\ failedPings' = 0
  /\ UNCHANGED <<config, wg, dlTask, ulTask, downloadResults, uploadResults,
                 acc, deposited, net, hostVars>>

\* the size of the file behind ExtraDownloadURL
ExtraFileSize == IF net.bodies = {} THEN 0 ELSE CHOOSE b \in net.bodies : \A x \in net.bodies : x <= b

\* lines 421-433, then testProxy lines 265-276
testExtraDownload ==
  /\ pc = "testExtraDownload"
  /\ LET open == IF Len(config.ExtraConnectURL) > 0 /\ extraBytes > 0
                 THEN DownloadResult(extraBytes, extraDuration) ELSE Nil
     IN IF config.ExtraDownloadURL # ""
        THEN \E dl \in TransferOutcomes(ExtraFileSize) :
                  /\ result' = afterExtra(result, extraLatencyResult, open, dl)
                  /\ requests' =
                       [requests EXCEPT
                          !.extraDownload = @ + 1,
                          !.extraDownloadFailed = @ + (IF dl.ok THEN 0 ELSE 1),
                          !.extraFailed = NoRequests.extraFailed]
        ELSE /\ result' = afterExtra(result, extraLatencyResult, open, Nil)
             /\ requests' = [requests EXCEPT !.extraFailed = NoRequests.extraFailed]
  /\ pc' = pcAfterExtra(extraLatencyResult)
  /\ extraLatencyResult' = <<>>
  /\ extraBytes' = 0
  /\ extraDuration' = 0
  /\ UNCHANGED <<config, i, latencies, failedPings, urlIdx, wg, dlTask, ulTask,
                 downloadResults, uploadResults, acc, deposited, net, hostVars>>

(***************************************************************************)
(* testProxy, the throughput phase (lines 279-343).                        *)
(***************************************************************************)
downloadChunkSize(c) == c.DownloadSize \div c.Concurrent

uploadChunkSize(c) == c.UploadSize \div c.Concurrent

\* make(chan *downloadResult): a channel without a buffer
ChannelCapUnbuffered(c) == 0

\* make(chan *downloadResult, st.config.Concurrent)
ChannelCap(c) == c.Concurrent

\* the wait returning at once, whatever the counter
WaitGroupNoWait(counter) == TRUE

\* wg.Wait() returns
WaitGroupDone(counter) == counter = 0

\* for i < Concurrent { wg.Add(1); go func() {...}() }, one iteration
startDownload ==
  /\ pc = "startDownload"
  /\ i < config.Concurrent
  /\ wg' = wg + 1
  /\ dlTask' = Append(dlTask, "ready")
  /\ i' = i + 1
  /\ pc' = IF i + 1 < config.Concurrent THEN pc ELSE "waitDownload"
  /\ UNCHANGED <<config, result, latencies, failedPings, urlIdx,
                 extraLatencyResult, extraBytes, extraDuration, ulTask,
                 downloadResults, uploadResults, acc, requests, deposited, net, hostVars>>

\* a download goroutine issues its GET (testDownload, line 445)
downloadRequest(t) ==
  /\ t \in DOMAIN dlTask
  /\ dlTask[t] = "ready"
  /\ dlTask' = [dlTask EXCEPT ![t] = "inflight"]
  /\ requests' = [requests EXCEPT !.download = @ + 1]
  /\ UNCHANGED <<config, pc, result, i, latencies, failedPings, urlIdx,
                 extraLatencyResult, extraBytes, extraDuration, wg, ulTask,
                 downloadResults, uploadResults, acc, deposited, net, hostVars>>

\* a goroutine that sends nothing when testDownload returned nil
downloadReturnDropsNil(t) ==
  /\ t \in DOMAIN dlTask
  /\ dlTask[t] = "inflight"
  /\ Len(downloadResults) < ChannelCap(config)
  /\ \E o \in TransferOutcomes(downloadChunkSize(config)) :
       IF o = Nil
       THEN UNCHANGED <<downloadResults, deposited>>
       ELSE /\ downloadResults' = Append(downloadResults, o)
            /\ deposited' = [deposited EXCEPT !.download = @ (+) SetToBag({o})]
  /\ dlTask' = [dlTask EXCEPT ![t] = "done"]
  /\ wg' = wg - 1
  /\ UNCHANGED <<config, pc, result, i, latencies, failedPings, urlIdx,
                 extraLatencyResult, extraBytes, extraDuration, ulTask,
                 uploadResults, acc, requests, net, hostVars>>

\* testDownload returns; the goroutine sends the outcome and runs wg.Done()
downloadReturn(t) ==
  /\ t \in DOMAIN dlTask
  /\ dlTask[t] = "inflight"
  /\ Len(downloadResults) < ChannelCap(config)
  /\ \E o \in TransferOutcomes(downloadChunkSize(config)) :
       /\ downloadResults' = Append(downloadResults, o)
       /\ deposited' = [deposited EXCEPT !.download = @ (+) SetToBag({o})]
  /\ dlTask' = [dlTask EXCEPT ![t] = "done"]
  /\ wg' = wg - 1
  /\ UNCHANGED <<config, pc, result, i, latencies, failedPings, urlIdx,
                 extraLatencyResult, extraBytes, extraDuration, ulTask,
                 uploadResults, acc, requests, net, hostVars>>

\* the first wg.Wait() (line 294)
waitDownload ==
  /\ pc = "waitDownload"
  /\ WaitGroupDone(wg)
  /\ pc' = "startUpload"
  /\ i' = 0
  /\ UNCHANGED <<config, result, latencies, failedPings, urlIdx,
                 extraLatencyResult, extraBytes, extraDuration, wg, dlTask,
                 ulTask, downloadResults, uploadResults, acc, requests,
                 deposited, net, hostVars>>

startUpload ==
  /\ pc = "startUpload"
  /\ i < config.Concurrent
  /\ wg' = wg + 1
  /\ ulTask' = Append(ulTask, "ready")
  /\ i' = i + 1
  /\ pc' = IF i + 1 < config.Concurrent THEN pc ELSE "waitUpload"
  /\ UNCHANGED <<config, result, latencies, failedPings, urlIdx,
                 extraLatencyResult, extraBytes, extraDuration, dlTask,
                 downloadResults, uploadResults, acc, requests, deposited, net, hostVars>>

\* an upload goroutine issues its POST (testUpload, line 468)
uploadRequest(t) ==
  /\ t \in DOMAIN ulTask
  /\ ulTask[t] = "ready"
  /\ ulTask' = [ulTask EXCEPT ![t] = "inflight"]
  /\ requests' = [requests EXCEPT !.upload = @ + 1]
  /\ UNCHANGED <<config, pc, result, i, latencies, failedPings, urlIdx,
                 extraLatencyResult, extraBytes, extraDuration, wg, dlTask,
                 downloadResults, uploadResults, acc, deposited, net, hostVars>>

uploadReturn(t) ==
  /\ t \in DOMAIN ulTask
  /\ ulTask[t] = "inflight"
  /\ Len(uploadResults) < ChannelCap(config)
  /\ \E o \in TransferOutcomes(uploadChunkSize(config)) :
       /\ uploadResults' = Append(uploadResults, o)
       /\ deposited' = [deposited EXCEPT !.upload = @ (+) SetToBag({o})]
  /\ ulTask' = [ulTask EXCEPT ![t] = "done"]
  /\ wg' = wg - 1
  /\ UNCHANGED <<config, pc, result, i, latencies, failedPings, urlIdx,
                 extraLatencyResult, extraBytes, extraDuration, dlTask,
                 downloadResults, acc, requests, net, hostVars>>

\* the second wg.Wait() (line 306)
waitUpload ==
  /\ pc = "waitUpload"
  /\ WaitGroupDone(wg)
  /\ pc' = "collectDownload"
  /\ i' = 0
  /\ UNCHANGED <<config, result, latencies, failedPings, urlIdx,
                 extraLatencyResult, extraBytes, extraDuration, wg, dlTask,
                 ulTask, downloadResults, uploadResults, acc, requests,
                 deposited, net, hostVars>>

\* the nil check lost: a failed chunk counted among the successes
addDownloadCountingNil(a, dr) ==
  [a EXCEPT !.totalDownloadBytes = @ + dr.bytes,
            !.totalDownloadTime = @ + dr.duration,
            !.downloadCount = @ + 1]

\* if dr := <-downloadResults; dr != nil { ... }
addDownload(a, dr) ==
  IF dr.ok
  THEN [a EXCEPT !.totalDownloadBytes = @ + dr.bytes,
                 !.totalDownloadTime = @ + dr.duration,
                 !.downloadCount = @ + 1]
  ELSE a

\* if ur := <-uploadResults; ur != nil { ... }
addUpload(a, ur) ==
  IF ur.ok
  THEN [a EXCEPT !.totalUploadBytes = @ + ur.bytes,
                 !.totalUploadTime = @ + ur.duration,
                 !.uploadCount = @ + 1]
  ELSE a

\* one iteration of the loop of lines 314-320; the receive blocks on an
\* empty channel
collectDownload ==
  /\ pc = "collectDownload"
  /\ i < config.Concurrent
  /\ Len(downloadResults) > 0
  /\ acc' = addDownload(acc, Head(downloadResults))
  /\ downloadResults' = Tail(downloadResults)
  /\ i' = IF i + 1 < config.Concurrent THEN i + 1 ELSE 0
  /\ pc' = IF i + 1 < config.Concurrent THEN pc ELSE "collectUpload"
  /\ UNCHANGED <<config, result, latencies, failedPings, urlIdx,
                 extraLatencyResult, extraBytes, extraDuration, wg, dlTask,
                 ulTask, uploadResults, requests, deposited, net, hostVars>>

\* one iteration of the loop of lines 323-329
collectUpload ==
  /\ pc = "collectUpload"
  /\ i < config.Concurrent
  /\ Len(uploadResults) > 0
  /\ acc' = addUpload(acc, Head(uploadResults))
  /\ uploadResults' = Tail(uploadResults)
  /\ i' = IF i + 1 < config.Concurrent THEN i + 1 ELSE 0
  /\ pc' = IF i + 1 < config.Concurrent THEN pc ELSE "aggregate"
  /\ UNCHANGED <<config, result, latencies, failedPings, urlIdx,
                 extraLatencyResult, extraBytes, extraDuration, wg, dlTask,
                 ulTask, downloadResults, requests, deposited, net, hostVars>>

\* the guard off by one: it lets a count of zero through
hasDownloadsOrNone(a) == a.downloadCount >= 0

\* if downloadCount > 0
hasDownloads(a) == a.downloadCount > 0

\* if uploadCount > 0
hasUploads(a) == a.uploadCount > 0

\* lines 332-341; called only when no integer division by zero occurs
aggregate(r, a) ==
  LET dt == a.totalDownloadTime \div a.downloadCount
      ut == a.totalUploadTime \div a.uploadCount
      r1 == IF hasDownloads(a)
            THEN [r EXCEPT !.DownloadSize = a.totalDownloadBytes,
                           !.DownloadTime = dt,
                           !.DownloadSpeed = SpeedOf(a.totalDownloadBytes, dt)]
            ELSE r
  IN IF hasUploads(a)
     THEN [r1 EXCEPT !.UploadSize = a.totalUploadBytes,
                     !.UploadTime = ut,
                     !.UploadSpeed = SpeedOf(a.totalUploadBytes, ut)]
     ELSE r1

\* totalDownloadTime / time.Duration(downloadCount) with a zero count is a
\* run-time panic (integer divide by zero)
aggregatePanics(a) ==
  \/ hasDownloads(a) /\ a.downloadCount = 0
  \/ hasUploads(a) /\ a.uploadCount = 0

\* lines 332-343
finish ==
  /\ pc = "aggregate"
  /\ IF aggregatePanics(acc)
     THEN pc' = "panic" /\ result' = result
     ELSE pc' = "done" /\ result' = aggregate(result, acc)
  /\ UNCHANGED <<config, i, latencies, failedPings, urlIdx, extraLatencyResult,
                 extraBytes, extraDuration, wg, dlTask, ulTask,
                 downloadResults, uploadResults, acc, requests, deposited, net, hostVars>>

(***************************************************************************)
(* main: classification of a Result, the result set, the ranking.          *)
(***************************************************************************)
MB == 1024 * 1024

\* x * k for a float64 x and a whole number k
FloatTimes(x, k) == FloatDiv(x.num * k, x.den)

Tenth == FloatDiv(1, 10)

Half == FloatDiv(1, 2)

\* the flags' defaults (main.go lines 32-39); max-latency is 800ms
DefaultFlags ==
  [maxLatency |-> (8 * Second) \div 10, minSpeed |-> Tenth,
   openSpeedThreshold |-> Tenth, goodOpenSpeedThreshold |-> Half,
   goodDownloadSpeedThreshold |-> Half,
   extraConnectURL |-> "", extraDownloadURL |-> "",
   concurrent |-> 4, downloadSize |-> 50 * 1024 * 1024,
   uploadSize |-> 20 * 1024 * 1024,
   outputPath |-> "./useable.yaml", goodOutputPath |-> "./good.yaml",
   configPaths |-> <<>>, skipPaths |-> <<>>]

\* the connectivity conjunct lost
isProxyUsableUnconnected(r, f) ==
  /\ (r.Latency <= f.maxLatency \/ f.maxLatency = 0)
  /\ \/ FloatGE(r.ExtraURLOpenSpeed, FloatTimes(f.openSpeedThreshold, MB))
     \/ f.extraConnectURL = ""
  /\ FloatGE(r.DownloadSpeed, FloatTimes(f.minSpeed, MB))
  /\ \/ FloatGE(r.ExtraDownloadSpeed, FloatTimes(f.minSpeed, MB))
     \/ f.extraDownloadURL = ""

isProxyUsable(r, f) ==
  /\ (r.Latency <= f.maxLatency \/ f.maxLatency = 0)
  /\ r.ExtraURLConnectivity
  /\ \/ FloatGE(r.ExtraURLOpenSpeed, FloatTimes(f.openSpeedThreshold, MB))
     \/ f.extraConnectURL = ""
  /\ FloatGE(r.DownloadSpeed, FloatTimes(f.minSpeed, MB))
  /\ \/ FloatGE(r.ExtraDownloadSpeed, FloatTimes(f.minSpeed, MB))
     \/ f.extraDownloadURL = ""

\* the isProxyUsable conjunct lost
isProxyGoodAlone(r, f) ==
  /\ FloatGE(r.DownloadSpeed, f.goodDownloadSpeedThreshold)
  /\ \/ FloatGE(r.ExtraURLOpenSpeed, f.goodOpenSpeedThreshold)
     \/ f.extraConnectURL = ""
  /\ \/ FloatGE(r.ExtraDownloadSpeed, f.goodDownloadSpeedThreshold)
     \/ f.extraDownloadURL = ""

isProxyGood(r, f) ==
  /\ isProxyUsable(r, f)
  /\ FloatGE(r.DownloadSpeed, f.goodDownloadSpeedThreshold)
  /\ \/ FloatGE(r.ExtraURLOpenSpeed, f.goodOpenSpeedThreshold)
     \/ f.extraConnectURL = ""
  /\ \/ FloatGE(r.ExtraDownloadSpeed, f.goodDownloadSpeedThreshold)
     \/ f.extraDownloadURL = ""

\* a comparison by speed alone
lessBySpeed(a, b, f) == FloatGT(a.DownloadSpeed, b.DownloadSpeed)

\* the less function main hands to sort.Slice
less(a, b, f) ==
  IF isProxyGood(a, f) = isProxyGood(b, f)
  THEN FloatGT(a.DownloadSpeed, b.DownloadSpeed)
  ELSE isProxyGood(a, f)

\* the callback keeping every Result
keepEvery(rs, r, f) == Append(rs, r)

\* the callback main hands to TestProxies
keepUsable(rs, r, f) == IF isProxyUsable(r, f) THEN Append(rs, r) ELSE rs

Orderings(n) == {p \in [1..n -> 1..n] : \A x, y \in 1..n : x # y => p[x] # p[y]}

\* sort.Slice: the slice rearranged so that no element is less than one
\* before it; elements that compare equal end up in any order
SortSlice(rs, f) ==
  {[k \in 1..Len(rs) |-> rs[p[k]]] : p \in
     {q \in Orderings(Len(rs)) :
        \A x, y \in 1..Len(rs) : x < y => ~less(rs[q[y]], rs[q[x]], f)}}

\* TestProxies calls fn with the next proxy's Result
callback ==
  /\ mpc = "testing"
  /\ proxies # <<>>
  /\ results' = keepUsable(results, Head(proxies), flags)
  /\ handed' = Append(handed, Head(proxies))
  /\ proxies' = Tail(proxies)
  /\ UNCHANGED <<flags, mpc, engineVars, statsVars, runVars, loadVars,
                 pathVars>>

\* every proxy is tested; main sorts the results
sortResults ==
  /\ mpc = "testing"
  /\ proxies = <<>>
  /\ results' \in SortSlice(results, flags)
  /\ mpc' = "sorted"
  /\ UNCHANGED <<flags, proxies, handed, engineVars, statsVars, runVars,
                 loadVars,
                 pathVars>>

(***************************************************************************)
(* A call of calculateLatencyStats.                                        *)
(***************************************************************************)
callStats ==
  /\ statsOut = <<>>
  /\ statsIn.called = FALSE
  /\ statsOut' = <<calculateLatencyStats(statsIn.latencies, statsIn.failedPings)>>
  /\ statsIn' = [statsIn EXCEPT !.called = TRUE]
  /\ UNCHANGED <<engineVars, mainVars, runVars, loadVars,
                 pathVars>>

(***************************************************************************)
(* Specifications.                                                         *)
(***************************************************************************)
MainIdle ==
  /\ flags = DefaultFlags
  /\ proxies = <<>>
  /\ results = <<>>
  /\ handed = <<>>
  /\ mpc = "idle"

StatsIdle ==
  /\ statsIn = [latencies |-> <<>>, failedPings |-> 0, called |-> TRUE]
  /\ statsOut = <<>>

RunIdle ==
  /\ toTest = {}
  /\ current = ""
  /\ called = <<>>

\* LoadProxies' `return nil, err`
LoadFailed == [err |-> TRUE, proxies |-> <<>>]

PathIdle ==
  /\ gpc = "idle"
  /\ absSkipPaths = <<>>
  /\ cfgPaths = <<>>
  /\ cfgIdx = 0
  /\ resultPaths = <<>>

LoadIdle ==
  /\ PathIdle
  /\ disk = <<>>
  /\ actualPaths = <<>>
  /\ allProxies = LoadFailed
  /\ untested = {}
  /\ tested = {}
  /\ written = <<>>
  /\ reloaded = <<>>
  /\ writes = <<>>

EngineIdle ==
  /\ net = [durations |-> {}, bodies |-> {}, partial |-> FALSE]
  /\ config = New([Concurrent |-> 0, DownloadSize |-> 0, UploadSize |-> 0,
                   ExtraConnectURL |-> <<>>, ExtraDownloadURL |-> ""])
  /\ pc = "idle"
  /\ result = NewResult
  /\ i = 0
  /\ latencies = <<>>
  /\ failedPings = 0
  /\ urlIdx = 0
  /\ extraLatencyResult = <<>>
  /\ extraBytes = 0
  /\ extraDuration = 0
  /\ wg = 0
  /\ dlTask = <<>>
  /\ ulTask = <<>>
  /\ downloadResults = <<>>
  /\ uploadResults = <<>>
  /\ acc = NoAcc
  /\ requests = NoRequests
  /\ deposited = [download |-> EmptyBag, upload |-> EmptyBag]

\* one call of testProxy, from its first line
Init == EngineInit /\ MainIdle /\ StatsIdle /\ RunIdle /\ LoadIdle

Tasks == 1..MaxConcurrent

Next ==
  \/ testLatencyProbe
  \/ testLatencyReturn
  \/ testExtraProbe
  \/ testExtraURLDone
  \/ testExtraDownload
  \/ startDownload
  \/ \E t \in Tasks : downloadRequest(t)
  \/ \E t \in Tasks : downloadReturn(t)
  \/ waitDownload
  \/ startUpload
  \/ \E t \in Tasks : uploadRequest(t)
  \/ \E t \in Tasks : uploadReturn(t)
  \/ waitUpload
  \/ collectDownload
  \/ collectUpload
  \/ finish

Spec == Init /\ [][Next]_vars

(***************************************************************************)
(* The throughput phase on its own, from line 279, on a network whose      *)
(* transfers differ in time and in bytes copied.                           *)
(***************************************************************************)
ThroughputInit ==
  /\ net = [durations |-> 1..MaxChunkTime, bodies |-> {}, partial |-> TRUE]
  /\ config \in {New([Concurrent |-> c, DownloadSize |-> MaxTransferSize,
                      UploadSize |-> MaxTransferSize,
                      ExtraConnectURL |-> <<>>, ExtraDownloadURL |-> ""]) :
                   c \in 0..MaxConcurrent}
  /\ pc = "startDownload"
  /\ result = [NewResult EXCEPT !.Latency = 1, !.ExtraURLConnectivity = TRUE]
  /\ i = 0
  /\ latencies = <<>>
  /\ failedPings = 0
  /\ urlIdx = 0
  /\ extraLatencyResult = <<>>
  /\ extraBytes = 0
  /\ extraDuration = 0
  /\ wg = 0
  /\ dlTask = <<>>
  /\ ulTask = <<>>
  /\ downloadResults = <<>>
  /\ uploadResults = <<>>
  /\ acc = NoAcc
  /\ requests = [NoRequests EXCEPT !.primary = LatencyPings]
  /\ deposited = [download |-> EmptyBag, upload |-> EmptyBag]
  /\ MainIdle
  /\ StatsIdle
  /\ RunIdle
  /\ LoadIdle

ThroughputNext ==
  \/ startDownload
  \/ \E t \in Tasks : downloadRequest(t)
  \/ \E t \in Tasks : downloadReturn(t)
  \/ waitDownload
  \/ startUpload
  \/ \E t \in Tasks : uploadRequest(t)
  \/ \E t \in Tasks : uploadReturn(t)
  \/ waitUpload
  \/ collectDownload
  \/ collectUpload
  \/ finish

SpecThroughput == ThroughputInit /\ [][ThroughputNext]_vars

(***************************************************************************)
(* calculateLatencyStats on every sample list a latency loop can build.    *)
(***************************************************************************)
SampleLists == UNION {[1..n -> 1..MaxSample] : n \in 0..LatencyPings}

StatsInit ==
  /\ statsIn \in {[latencies |-> l, failedPings |-> LatencyPings - Len(l),
                     called |-> FALSE] : l \in SampleLists}
  /\ statsOut = <<>>
  /\ EngineIdle
  /\ MainIdle
  /\ RunIdle
  /\ LoadIdle

StatsNext == callStats

SpecStats == StatsInit /\ [][StatsNext]_vars

(***************************************************************************)
(* main's handling of the Results the engine returns.                      *)
(***************************************************************************)
\* a Result of a run that got as far as the throughput phase
Measured(lat, open, dl, xdl) ==
  [NewResult EXCEPT !.Latency = lat, !.ExtraURLConnectivity = TRUE,
                    !.ExtraURLOpenSpeed = open, !.DownloadSpeed = dl,
                    !.DownloadSize = dl.num, !.DownloadTime = Second * dl.den,
                    !.ExtraDownloadSpeed = xdl]

\* a Result of a run an unreachable auxiliary URL ended
Unreachable(lat) == [NewResult EXCEPT !.Latency = lat]

\* speeds in bytes per second: one byte, an eighth of a megabyte, a megabyte
SlowSpeed == FloatDiv(1, 1)

FairSpeed == FloatDiv(MB, 8)

FastSpeed == FloatDiv(MB, 1)

ClassifySamples ==
  {Unreachable(l) : l \in {1, Second}}
  \cup {Measured(l, o, d, x) : l \in {1, Second}, o \in {Zero, FairSpeed},
          d \in {Zero, SlowSpeed, FairSpeed}, x \in {Zero, FairSpeed}}

ClassifyFlags ==
  {[DefaultFlags EXCEPT !.maxLatency = ml, !.minSpeed = ms,
                        !.extraConnectURL = cu, !.extraDownloadURL = du] :
     ml \in {0, DefaultFlags.maxLatency}, ms \in {Zero, Tenth},
     cu \in {"", "u"}, du \in {"", "d"}}

\* flags under which usable Results differ in being good
RankFlags ==
  {[DefaultFlags EXCEPT !.minSpeed = Zero, !.openSpeedThreshold = Zero,
                        !.extraConnectURL = "u"]}

RankSamples ==
  {Unreachable(1)}
  \cup {Measured(1, o, FloatDiv(d, 1), Zero) :
          o \in {Zero, SlowSpeed}, d \in {3, 5, 100}}

ProxyLists == UNION {[1..n -> RankSamples] : n \in 0..MaxProxies}

MainInit ==
  /\ \/ flags \in ClassifyFlags /\ proxies \in {<<r>> : r \in ClassifySamples}
     \/ flags \in RankFlags /\ proxies \in ProxyLists
  /\ results = <<>>
  /\ handed = <<>>
  /\ mpc = "testing"
  /\ EngineIdle
  /\ StatsIdle
  /\ RunIdle
  /\ LoadIdle

MainNext == callback \/ sortResults

SpecMain == MainInit /\ [][MainNext]_vars

(***************************************************************************)
(* main's loop over the configuration paths: LoadProxies, TestProxies,     *)
(* the sort, saveConfig, and LoadProxies again on a file that was saved.   *)
(***************************************************************************)
\* a YAML mapping of a proxy entry: the keys it has, and their values
RawProxy(n, t) == [keys |-> {"name", "type"}, name |-> n, type |-> t]

EmptyMapping == [keys |-> {}, name |-> "", type |-> ""]

\* CProxy.Config, a map[string]any: nil for a provider's proxy
NilConfig == [nil |-> TRUE, map |-> EmptyMapping]

ConfigOf(m) == [nil |-> FALSE, map |-> m]

\* the proxy types adapter.ParseProxy knows, and those LoadProxies keeps
ParsableTypes == {"ss", "direct"}

SupportedTypes == {"ss"}

\* adapter.ParseProxy: a proxy with the entry's name and type, or an error
ParseProxy(m) ==
  IF "type" \in m.keys /\ "name" \in m.keys /\ m.type \in ParsableTypes
  THEN [err |-> FALSE, name |-> m.name, type |-> m.type]
  ELSE [err |-> TRUE, name |-> "", type |-> ""]

\* the loop over proxiesConfig (lines 99-109): the map built, or the error
RECURSIVE parseProxies(_, _, _)
parseProxies(proxiesConfig, k, m) ==
  IF k > Len(proxiesConfig) THEN [err |-> FALSE, proxies |-> m]
  ELSE LET proxy == ParseProxy(proxiesConfig[k])
       IN IF proxy.err THEN LoadFailed
          ELSE IF <<"", proxy.name>> \in DOMAIN m THEN LoadFailed
          ELSE parseProxies(proxiesConfig, k + 1,
                 MapPut(m, <<"", proxy.name>>,
                        [name |-> proxy.name, type |-> proxy.type,
                         Config |-> ConfigOf(proxiesConfig[k])]))

\* the loop over providersConfig (lines 110-123); "[%s] %s" of a provider
\* and a proxy name is the pair of the two
RECURSIVE addProviders(_, _, _)
addProviders(providersConfig, k, m) ==
  IF k > Len(providersConfig) THEN m
  ELSE LET pd == providersConfig[k]
           named == [key \in {<<pd.name, pd.proxies[n].name>> : n \in DOMAIN pd.proxies} |->
                       LET n == CHOOSE x \in DOMAIN pd.proxies :
                                  pd.proxies[x].name = key[2]
                       IN [name |-> pd.proxies[n].name, type |-> pd.proxies[n].type,
                           Config |-> NilConfig]]
       IN addProviders(providersConfig, k + 1,
            [key \in DOMAIN m \cup DOMAIN named |->
               IF key \in DOMAIN named THEN named[key] ELSE m[key]])

\* LoadProxies on one path whose file holds rawCfg (lines 67-147); the
\* default filter ".+" keeps every name
LoadProxies(rawCfg) ==
  LET parsed == parseProxies(rawCfg.Proxies, 1, <<>>)
  IN IF parsed.err THEN LoadFailed
     ELSE LET all == addProviders(rawCfg.Providers, 1, parsed.proxies)
              kept == {key \in DOMAIN all : all[key].type \in SupportedTypes}
          IN [err |-> FALSE, proxies |-> [key \in kept |-> all[key]]]

\* testProxy lines 246-251: the Result of proxy `key` of the file at `path`,
\* with the measurements `measured`; `proxy` is the observer's note of the
\* name and type of the proxy tested
ResultOf(path, key, p, measured) ==
  [f \in DOMAIN measured \cup {"ProxyName", "ProxyType", "ProxyConfig", "proxy"} |->
     IF f = "ProxyName" THEN <<path, key>>
     ELSE IF f = "ProxyType" THEN p.type
     ELSE IF f = "ProxyConfig" THEN p.Config
     ELSE IF f = "proxy" THEN [name |-> p.name, type |-> p.type]
     ELSE measured[f]]

\* yaml.Marshal of &RawConfig{Proxies: proxies} as yaml.Unmarshal reads it
\* back: a nil map is written as the empty mapping {}
Marshal(proxiesConfig) ==
  [Proxies |-> [k \in DOMAIN proxiesConfig |-> proxiesConfig[k].map],
   Providers |-> <<>>]

\* doSaveConfig (main.go lines 375-394) with `ok` telling whether
\* os.WriteFile succeeded: what is on disk afterwards, and whether
\* log.Fatalln ended the program
doSaveConfig(rs, ok) ==
  LET yamlData == Marshal([k \in DOMAIN rs |-> rs[k].ProxyConfig])
  IN IF ~ok THEN [wrote |-> FALSE, data |-> yamlData, fatal |-> FALSE]
     ELSE [wrote |-> TRUE, data |-> yamlData, fatal |-> TRUE]

\* what a tested proxy's measurements can be: unusable, usable, good
LoadSamples ==
  {Unreachable(1), Measured(1, Zero, FloatDiv(3, 1), Zero),
   Measured(1, SlowSpeed, FloatDiv(5, 1), Zero)}

\* main.go lines 78-86: the next path, LoadProxies, the warning on an error
mainLoad ==
  /\ mpc = "load"
  /\ actualPaths # <<>>
  /\ allProxies' = LoadProxies(disk[Head(actualPaths)])
  /\ untested' = DOMAIN allProxies'.proxies
  /\ mpc' = "test"
  /\ UNCHANGED <<disk, actualPaths, tested, written, reloaded, flags, proxies,
                 results, handed, engineVars, statsVars, runVars,
                 pathVars,
                 writes>>

\* TestProxies lines 150-151 and main's callback, for one proxy of the map
mainTest ==
  /\ mpc = "test"
  /\ \E key \in untested, measured \in LoadSamples :
       /\ results' = keepUsable(results,
                       ResultOf(Head(actualPaths), key, allProxies.proxies[key],
                                measured), flags)
       /\ tested' = tested \cup {<<Head(actualPaths), key>>}
       /\ untested' = untested \ {key}
  /\ UNCHANGED <<disk, actualPaths, allProxies, written, reloaded, flags,
                 proxies, handed, mpc, engineVars, statsVars, runVars,
                 pathVars,
                 writes>>

\* TestProxies returns; the loop of main.go line 78 goes on or ends
mainNextPath ==
  /\ mpc = "test"
  /\ untested = {}
  /\ actualPaths' = Tail(actualPaths)
  /\ mpc' = IF Tail(actualPaths) = <<>> THEN "sort" ELSE "load"
  /\ allProxies' = LoadFailed
  /\ UNCHANGED <<disk, untested, tested, written, reloaded, flags, proxies,
                 results, handed, engineVars, statsVars, runVars,
                 pathVars,
                 writes>>

\* main.go lines 101-106
mainLoadSort ==
  /\ mpc = "sort"
  /\ results' \in SortSlice(results, flags)
  /\ mpc' = "save"
  /\ UNCHANGED <<flags, proxies, handed, engineVars, statsVars, runVars,
                 loadVars,
                 pathVars>>

\* isProxyGood's filter of saveConfig (lines 399-404)
goodResults(rs, f) == SelectSeq(rs, LAMBDA r : isProxyGood(r, f))

\* main.go lines 108-111 and saveConfig (lines 396-411): the good file, then
\* the output file, unless log.Fatalln ended the program in between
mainSave ==
  /\ mpc = "save"
  /\ \E okGood, okAll \in BOOLEAN :
       LET good == doSaveConfig(goodResults(results, flags), okGood)
           all == doSaveConfig(results, okAll)
           doGood == flags.goodOutputPath # ""
           doAll == flags.outputPath # "" /\ ~(doGood /\ good.fatal)
           w1 == IF doGood /\ good.wrote
                 THEN MapPut(written, "good", good.data) ELSE written
           w2 == IF doAll /\ all.wrote
                 THEN MapPut(w1, "output", all.data) ELSE w1
       IN /\ written' = w2
          /\ writes' = (IF doGood THEN <<[kind |-> "good", ok |-> okGood]>>
                        ELSE <<>>)
                       \o (IF doAll THEN <<[kind |-> "output", ok |-> okAll]>>
                           ELSE <<>>)
          /\ mpc' = IF (doGood /\ good.fatal) \/ (doAll /\ all.fatal)
                    THEN "exited" ELSE "finished"
  /\ UNCHANGED <<disk, actualPaths, allProxies, untested, tested, reloaded,
                 flags, proxies, results, handed, engineVars, statsVars,
                 runVars, pathVars>>

\* a later run's LoadProxies on a file this run wrote
reloadSaved ==
  /\ mpc \in {"exited", "finished"}
  /\ \E kind \in DOMAIN written :
       reloaded' = MapPut(<<>>, kind, LoadProxies(written[kind]))
  /\ mpc' = "reloaded"
  /\ UNCHANGED <<disk, actualPaths, allProxies, untested, tested, written,
                 writes, flags, proxies, results, handed, engineVars,
                 statsVars, runVars, pathVars>>

Entries ==
  {RawProxy("a", "ss"), RawProxy("b", "ss"), RawProxy("c", "bogus"),
   RawProxy("b", "direct")}

ProxyLists0 == UNION {[1..n -> Entries] : n \in 0..MaxEntries}

\* a provider "p" that yields one proxy named like an inline one
ProviderLists ==
  {<<>>, <<[name |-> "p", proxies |-> <<[name |-> "a", type |-> "ss"]>>]>>}

FileContents ==
  {[Proxies |-> pl, Providers |-> pv] : pl \in ProxyLists0, pv \in ProviderLists}

\* the second file of a run: one inline proxy
SecondFiles == {[Proxies |-> <<RawProxy("a", "ss")>>, Providers |-> <<>>]}

LoadFlags ==
  {[f EXCEPT !.outputPath = o, !.goodOutputPath = g] :
     f \in RankFlags, o \in {"", DefaultFlags.outputPath},
     g \in {"", DefaultFlags.goodOutputPath}}

LoadInit ==
  /\ flags \in LoadFlags
  /\ \/ \E c \in FileContents :
          disk = [path \in {"f"} |-> c] /\ actualPaths = <<"f">>
     \/ \E c \in FileContents, d \in SecondFiles :
          /\ disk = [path \in {"f", "g"} |-> IF path = "f" THEN c ELSE d]
          /\ actualPaths = <<"f", "g">>
  /\ allProxies = LoadFailed
  /\ untested = {}
  /\ tested = {}
  /\ written = <<>>
  /\ reloaded = <<>>
  /\ writes = <<>>
  /\ proxies = <<>>
  /\ results = <<>>
  /\ handed = <<>>
  /\ mpc = "load"
  /\ EngineIdle
  /\ StatsIdle
  /\ RunIdle
  /\ PathIdle

LoadNext ==
  \/ mainLoad
  \/ mainTest
  \/ mainNextPath
  \/ mainLoadSort
  \/ mainSave
  \/ reloadSaved

SpecLoad == LoadInit /\ [][LoadNext]_vars

(***************************************************************************)
(* A whole run of main on one configuration file: the Config made from the *)
(* flags, TestProxies over the map of proxies, the callback, the sort.     *)
(***************************************************************************)
\* strings.Split(s, ",") of the values the extra-connect-url flag takes
\* here; the URLs "u" and "v" are the engine's URLs 1 and 2
Split(s) ==
  CASE s = "u" -> <<1>>
    [] s = "u,v" -> <<1, 2>>
    [] OTHER -> <<0>>

\* main.go lines 56-67: the Config handed to speedtester.New
mainConfig(f) ==
  [Concurrent |-> f.concurrent, DownloadSize |-> f.downloadSize,
   UploadSize |-> f.uploadSize,
   ExtraConnectURL |-> IF f.extraConnectURL # "" THEN Split(f.extraConnectURL)
                       ELSE <<>>,
   ExtraDownloadURL |-> ""]

\* thresholds that reject nothing
LenientFlags ==
  [DefaultFlags EXCEPT !.maxLatency = 0, !.minSpeed = Zero,
                       !.openSpeedThreshold = Zero,
                       !.goodOpenSpeedThreshold = Zero,
                       !.goodDownloadSpeedThreshold = Zero]

RunFlags ==
  {[f EXCEPT !.concurrent = 1, !.downloadSize = MaxTransferSize,
             !.uploadSize = MaxTransferSize, !.extraConnectURL = cu,
             !.extraDownloadURL = du] :
     f \in {DefaultFlags, LenientFlags}, cu \in {"", "u"}, du \in {"", "d"}}

\* the names of the proxies a configuration file can hold
ProxyNames == {"a", "b"}

\* the maps LoadProxies can return: none, one or two proxies
ProxyMaps == {{}, {"a"}, {"a", "b"}}

\* TestProxies lines 150-151: the range picks a proxy of the map and
\* testProxy is entered (lines 245-251)
testProxiesRange ==
  /\ mpc = "testing"
  /\ pc = "idle"
  /\ toTest # {}
  /\ \E p \in toTest : current' = p /\ toTest' = toTest \ {p}
  /\ net' \in UniformNets
  /\ pc' = "testLatency"
  /\ result' = NewResult
  /\ requests' = NoRequests
  /\ deposited' = [download |-> EmptyBag, upload |-> EmptyBag]
  /\ UNCHANGED <<config, i, latencies, failedPings, urlIdx, extraLatencyResult,
                 extraBytes, extraDuration, wg, dlTask, ulTask, downloadResults,
                 uploadResults, acc, called, mainVars, statsVars, loadVars,
                 pathVars>>

\* TestProxies line 151: fn(result); main's callback (main.go lines 87-93)
testProxiesCallback ==
  /\ pc = "done"
  /\ current # ""
  /\ results' = keepUsable(results, result, flags)
  /\ handed' = Append(handed, result)
  /\ called' = [called EXCEPT ![current] = @ + 1]
  /\ current' = ""
  /\ pc' = "idle"
  /\ result' = NewResult
  /\ i' = 0
  /\ wg' = 0
  /\ dlTask' = <<>>
  /\ ulTask' = <<>>
  /\ acc' = NoAcc
  /\ UNCHANGED <<config, latencies, failedPings, urlIdx, extraLatencyResult,
                 extraBytes, extraDuration, downloadResults, uploadResults,
                 requests, deposited, net, flags, proxies, mpc, toTest,
                 statsVars, loadVars,
                 pathVars>>

\* TestProxies has returned; main sorts (main.go lines 101-106)
mainSort ==
  /\ pc = "idle"
  /\ toTest = {}
  /\ sortResults

RunInit ==
  /\ flags \in RunFlags
  /\ config = New(mainConfig(flags))
  /\ toTest \in ProxyMaps
  /\ current = ""
  /\ called = [p \in ProxyNames |-> 0]
  /\ proxies = <<>>
  /\ results = <<>>
  /\ handed = <<>>
  /\ mpc = "testing"
  /\ net = [durations |-> {}, bodies |-> {}, partial |-> FALSE]
  /\ pc = "idle"
  /\ result = NewResult
  /\ i = 0
  /\ latencies = <<>>
  /\ failedPings = 0
  /\ urlIdx = 0
  /\ extraLatencyResult = <<>>
  /\ extraBytes = 0
  /\ extraDuration = 0
  /\ wg = 0
  /\ dlTask = <<>>
  /\ ulTask = <<>>
  /\ downloadResults = <<>>
  /\ uploadResults = <<>>
  /\ acc = NoAcc
  /\ requests = NoRequests
  /\ deposited = [download |-> EmptyBag, upload |-> EmptyBag]
  /\ StatsIdle
  /\ LoadIdle

RunNext ==
  \/ testProxiesRange
  \/ Next
  \/ testProxiesCallback
  \/ mainSort

SpecRun == RunInit /\ [][RunNext]_vars

(***************************************************************************)
(* The same run under fair scheduling: the thread of main, TestProxies and *)
(* testProxy goes on while it has a step to take, a request it waits for   *)
(* returning within the timeout, and so does every goroutine.              *)
(***************************************************************************)
FairFlags ==
  {[LenientFlags EXCEPT !.concurrent = c, !.downloadSize = MaxTransferSize,
                        !.uploadSize = MaxTransferSize,
                        !.extraConnectURL = "u"] : c \in 1..MaxConcurrent}

\* one proxy with every concurrency, two proxies with one task per phase
FairInit ==
  /\ flags \in FairFlags
  /\ config = New(mainConfig(flags))
  /\ toTest \in {m \in ProxyMaps : Cardinality(m) <= 1 \/ flags.concurrent = 1}
  /\ current = ""
  /\ called = [p \in ProxyNames |-> 0]
  /\ proxies = <<>>
  /\ results = <<>>
  /\ handed = <<>>
  /\ mpc = "testing"
  /\ net = [durations |-> {}, bodies |-> {}, partial |-> FALSE]
  /\ pc = "idle"
  /\ result = NewResult
  /\ i = 0
  /\ latencies = <<>>
  /\ failedPings = 0
  /\ urlIdx = 0
  /\ extraLatencyResult = <<>>
  /\ extraBytes = 0
  /\ extraDuration = 0
  /\ wg = 0
  /\ dlTask = <<>>
  /\ ulTask = <<>>
  /\ downloadResults = <<>>
  /\ uploadResults = <<>>
  /\ acc = NoAcc
  /\ requests = NoRequests
  /\ deposited = [download |-> EmptyBag, upload |-> EmptyBag]
  /\ StatsIdle
  /\ LoadIdle

\* the steps of the thread that runs main, TestProxies and testProxy
MainThread ==
  \/ testProxiesRange
  \/ testLatencyProbe
  \/ testLatencyReturn
  \/ testExtraProbe
  \/ testExtraURLDone
  \/ testExtraDownload
  \/ startDownload
  \/ waitDownload
  \/ startUpload
  \/ waitUpload
  \/ collectDownload
  \/ collectUpload
  \/ finish
  \/ testProxiesCallback
  \/ mainSort

\* the steps of the t-th goroutine of either loop (lines 287-293, 299-305)
Goroutine(t) ==
  \/ downloadRequest(t)
  \/ downloadReturn(t)
  \/ uploadRequest(t)
  \/ uploadReturn(t)

SpecFair ==
  /\ FairInit
  /\ [][RunNext]_vars
  /\ WF_vars(MainThread)
  /\ \A t \in Tasks : WF_vars(Goroutine(t))

(***************************************************************************)
(* getAllConfigPath and main's use of it.  A string is the sequence of its *)
(* pieces: "/", ",", "http://", a name, an extension.                      *)
(***************************************************************************)
\* strings.HasPrefix
HasPrefix(str, prefix) ==
  Len(prefix) <= Len(str) /\ SubSeq(str, 1, Len(prefix)) = prefix

\* strings.Split(str, ","): Split of the empty string is one empty string
RECURSIVE SplitFrom(_, _, _)
SplitFrom(str, k, piece) ==
  IF k > Len(str) THEN <<piece>>
  ELSE IF str[k] = "," THEN <<piece>> \o SplitFrom(str, k + 1, <<>>)
  ELSE SplitFrom(str, k + 1, Append(piece, str[k]))

SplitPaths(str) == SplitFrom(str, 1, <<>>)

\* the working directory, and the files and directories there are
Cwd == <<"/", "w">>

Files ==
  {<<"/", "o", "/", "c", ".YAML">>,
   <<"/", "w", "/", "a", ".yaml">>,
   <<"/", "w", "/", "d", "/", "b", ".yml">>,
   <<"/", "w", "/", "d", "/", "n", ".txt">>}

Dirs == {<<"/", "o">>, <<"/", "w">>, <<"/", "w", "/", "d">>}

\* the files in the lexical order filepath.WalkDir visits them in
WalkOrder ==
  <<<<"/", "o", "/", "c", ".YAML">>,
    <<"/", "w", "/", "a", ".yaml">>,
    <<"/", "w", "/", "d", "/", "b", ".yml">>,
    <<"/", "w", "/", "d", "/", "n", ".txt">>>>

\* filepath.Abs: the path itself when absolute, else joined to the working
\* directory, which is what the empty path gives
Abs(path) ==
  IF path = <<>> THEN Cwd
  ELSE IF path[1] = "/" THEN path
  ELSE Cwd \o <<"/">> \o path

\* the regexp ^https?://
httpRegex(path) == path # <<>> /\ path[1] \in {"http://", "https://"}

\* filepath.Ext and strings.ToLower of it
Ext(path) ==
  IF path # <<>> /\ path[Len(path)] \in {".yaml", ".yml", ".YAML", ".txt"}
  THEN path[Len(path)] ELSE ""

ToLower(ext) == IF ext = ".YAML" THEN ".yaml" ELSE ext

\* main.go lines 209-212
isYamlFile(path) == ToLower(Ext(path)) \in {".yaml", ".yml"}

\* main.go lines 214-229; filepath.Match of a pattern with no wildcard is
\* equality
isSkipped(path, skipPaths) ==
  \E k \in DOMAIN skipPaths :
    skipPaths[k] = path \/ HasPrefix(path, skipPaths[k])

\* the files filepath.WalkDir(dir) visits
WalkDir(dir) ==
  SelectSeq(WalkOrder, LAMBDA f : HasPrefix(f, dir \o <<"/">>))

\* getAllConfigPath lines 148-159: the skip patterns made absolute, the
\* configured paths split, resultPaths made with len(cfgPaths) empty strings
getAllConfigPathStart ==
  /\ mpc = "paths"
  /\ gpc = "start"
  /\ absSkipPaths' = [k \in DOMAIN SplitPaths(flags.skipPaths) |->
                        Abs(SplitPaths(flags.skipPaths)[k])]
  /\ cfgPaths' = SplitPaths(flags.configPaths)
  /\ resultPaths' = [k \in 1..Len(SplitPaths(flags.configPaths)) |-> <<>>]
  /\ cfgIdx' = 0
  /\ gpc' = "range"
  /\ UNCHANGED <<engineVars, mainVars, statsVars, runVars, loadVars>>

\* the entry of cfgPaths the range loop stands at
cfgPath == cfgPaths[cfgIdx + 1]

InRangeLoop == gpc = "range" /\ cfgIdx < Len(cfgPaths)

\* lines 164-167: an http(s) link is taken as it is
visitURL ==
  /\ InRangeLoop
  /\ httpRegex(cfgPath)
  /\ resultPaths' = Append(resultPaths, cfgPath)
  /\ cfgIdx' = cfgIdx + 1
  /\ UNCHANGED <<gpc, absSkipPaths, cfgPaths, engineVars, mainVars, statsVars,
                 runVars, loadVars>>

\* lines 170-179: log.Fatalln on a path that does not exist
visitMissing ==
  /\ InRangeLoop
  /\ ~httpRegex(cfgPath)
  /\ Abs(cfgPath) \notin Files \cup Dirs
  /\ gpc' = "exited"
  /\ mpc' = "exited"
  /\ UNCHANGED <<absSkipPaths, cfgPaths, cfgIdx, resultPaths, flags, proxies,
                 results, handed, engineVars, statsVars, runVars, loadVars>>

\* lines 182-187: a file
visitFile ==
  /\ InRangeLoop
  /\ ~httpRegex(cfgPath)
  /\ Abs(cfgPath) \in Files
  /\ resultPaths' = IF isYamlFile(Abs(cfgPath)) /\ ~isSkipped(Abs(cfgPath), absSkipPaths)
                    THEN Append(resultPaths, Abs(cfgPath)) ELSE resultPaths
  /\ cfgIdx' = cfgIdx + 1
  /\ UNCHANGED <<gpc, absSkipPaths, cfgPaths, engineVars, mainVars, statsVars,
                 runVars, loadVars>>

\* lines 190-203: a directory, walked
visitDir ==
  /\ InRangeLoop
  /\ ~httpRegex(cfgPath)
  /\ Abs(cfgPath) \in Dirs
  /\ resultPaths' =
       resultPaths \o SelectSeq(WalkDir(Abs(cfgPath)),
                        LAMBDA f : isYamlFile(f) /\ ~isSkipped(f, absSkipPaths))
  /\ cfgIdx' = cfgIdx + 1
  /\ UNCHANGED <<gpc, absSkipPaths, cfgPaths, engineVars, mainVars, statsVars,
                 runVars, loadVars>>

\* line 206 and main.go lines 69-72: the list returned, log.Fatalln on an
\* empty one
getAllConfigPathReturn ==
  /\ gpc = "range"
  /\ cfgIdx = Len(cfgPaths)
  /\ actualPaths' = resultPaths
  /\ gpc' = "returned"
  /\ mpc' = IF Len(resultPaths) = 0 THEN "exited" ELSE "load"
  /\ UNCHANGED <<absSkipPaths, cfgPaths, cfgIdx, resultPaths, flags, proxies,
                 results, handed, disk, allProxies, untested, tested, written,
                 reloaded, engineVars, statsVars, runVars,
                 writes>>

\* what an entry of the -c flag, or of the skip-paths flag, can be
PathEntries ==
  {<<"http://", "h">>, <<"/", "w", "/", "a", ".yaml">>, <<"d">>, <<"/", "o">>,
   <<"/", "w", "/", "d", "/", "n", ".txt">>, <<"/", "m", ".yaml">>}

SkipEntries == {<<"/", "o">>, <<"d">>, <<"/", "w", "/", "a", ".yaml">>}

\* the entries joined with commas, as the flag is written
RECURSIVE Join(_)
Join(entries) ==
  IF Len(entries) = 0 THEN <<>>
  ELSE IF Len(entries) = 1 THEN entries[1]
  ELSE entries[1] \o <<",">> \o Join(Tail(entries))

\* main.go line 53 leaves no run with an empty -c flag
PathFlags ==
  {[DefaultFlags EXCEPT !.configPaths = Join(c), !.skipPaths = sk] :
     c \in UNION {[1..n -> PathEntries] : n \in 1..MaxPathEntries},
     sk \in {<<>>} \cup SkipEntries}

PathInit ==
  /\ flags \in PathFlags
  /\ proxies = <<>>
  /\ results = <<>>
  /\ handed = <<>>
  /\ mpc = "paths"
  /\ gpc = "start"
  /\ absSkipPaths = <<>>
  /\ cfgPaths = <<>>
  /\ cfgIdx = 0
  /\ resultPaths = <<>>
  /\ disk = <<>>
  /\ actualPaths = <<>>
  /\ allProxies = LoadFailed
  /\ untested = {}
  /\ tested = {}
  /\ written = <<>>
  /\ reloaded = <<>>
  /\ writes = <<>>
  /\ EngineIdle
  /\ StatsIdle
  /\ RunIdle

PathNext ==
  \/ getAllConfigPathStart
  \/ visitURL
  \/ visitMissing
  \/ visitFile
  \/ visitDir
  \/ getAllConfigPathReturn

SpecPaths == PathInit /\ [][PathNext]_vars

(***************************************************************************)
(* Claims.                                                                 *)
(***************************************************************************)
URLs == 1..Len(config.ExtraConnectURL)

\* no auxiliary or throughput data in a Result
NothingMeasured(r) ==
  /\ ~r.ExtraURLConnectivity
  /\ r.ExtraURLOpenSpeed = Zero
  /\ r.ExtraDownloadSpeed = Zero
  /\ r.DownloadSpeed = Zero /\ r.DownloadSize = 0 /\ r.DownloadTime = 0
  /\ r.UploadSpeed = Zero /\ r.UploadSize = 0 /\ r.UploadTime = 0

NoThroughputRequests ==
  /\ requests.download = 0
  /\ requests.upload = 0
  /\ dlTask = <<>>
  /\ ulTask = <<>>

\* C1: once the primary latency test has reported a packet loss of 100%,
\* testProxy has returned: no request went to an auxiliary URL, to the
\* auxiliary download URL, or for a download or upload chunk, and the Result
\* has connectivity false and every auxiliary and throughput field zero.
C1_TotalLossReturnsAtOnce ==
  (requests.primary = 6 /\ requests.primaryFailed = 6 /\ pc # "testLatency") =>
    /\ pc = "done"
    /\ result.PacketLoss = Hundred
    /\ \A u \in 1..MaxURLs : requests.extra[u] = 0
    /\ requests.extraDownload = 0
    /\ NoThroughputRequests
    /\ NothingMeasured(result)

C1_Witness ==
  /\ pc = "done"
  /\ result.PacketLoss = Hundred
  /\ requests.primary = 6
  /\ Len(config.ExtraConnectURL) > 0
  /\ config.ExtraDownloadURL # ""

\* URL u received a full run of 6 requests and every one of them failed
Dead(u) == requests.extra[u] = 6 /\ requests.extraAllFailed[u]

\* C2: auxiliary URLs are probed in list order, and once all 6 probes of one
\* URL have failed no later URL receives a request, no auxiliary download and
\* no chunk transfer is requested, and the Result returned has connectivity
\* false with no open speed and no auxiliary download speed.
C2_UnreachableURLStopsProbing ==
  /\ \A u \in URLs : requests.extra[u] > 0 =>
       \A v \in URLs : v < u => requests.extra[v] = 6
  /\ \A u \in URLs : Dead(u) =>
       /\ \A v \in URLs : v > u => requests.extra[v] = 0
       /\ requests.extraDownload = 0
       /\ NoThroughputRequests
       /\ \/ pc = "testExtra" /\ urlIdx = u /\ i = 6
          \/ pc = "done" /\ NothingMeasured(result)

C2_Witness ==
  /\ Len(config.ExtraConnectURL) = 3
  /\ config.ExtraDownloadURL # ""
  /\ requests.extra[1] = 6 /\ ~requests.extraAllFailed[1]
  /\ Dead(2)
  /\ requests.extra[3] = 0
  /\ pc = "done"
  /\ ~result.ExtraURLConnectivity

InRange(x) == FloatGE(x, Zero) /\ FloatGE(Hundred, x)

\* C6: every run of a latency loop issues exactly 6 requests, each counted
\* once, as a latency sample or as a failed ping, so the two add up to the
\* requests issued, and the packet loss reported is failed / 6 * 100, a
\* value from 0 to 100.
C6_SixProbesEachCountedOnce ==
  /\ pc = "testLatency" =>
       /\ requests.primary = i /\ i <= 6
       /\ failedPings = requests.primaryFailed
       /\ Len(latencies) + failedPings = i
  /\ pc \notin {"testLatency", "idle"} =>
       /\ requests.primary = 6
       /\ result.PacketLoss = FloatDiv(requests.primaryFailed * 100, 6)
       /\ InRange(result.PacketLoss)
  /\ pc = "testExtra" =>
       /\ requests.extra[urlIdx] = i /\ i <= 6
       /\ failedPings = requests.extraFailed[urlIdx]
       /\ Len(latencies) + failedPings = i
       /\ DOMAIN extraLatencyResult = 1..(urlIdx - 1)
       /\ \A u \in DOMAIN extraLatencyResult :
            /\ requests.extra[u] = 6
            /\ extraLatencyResult[u].packetLoss =
                 FloatDiv(requests.extraFailed[u] * 100, 6)
            /\ InRange(extraLatencyResult[u].packetLoss)
  /\ \A u \in 1..MaxURLs : requests.extra[u] \in 0..6
  /\ pc \in {"testExtraDownload", "startDownload", "waitDownload", "startUpload",
             "waitUpload", "collectDownload", "collectUpload", "aggregate"} =>
       \A u \in URLs : requests.extra[u] = 6

C6_Witness ==
  /\ pc = "testExtra"
  /\ urlIdx = 2
  /\ i = 6
  /\ requests.primaryFailed = 3
  /\ result.PacketLoss = FloatDiv(50, 1)
  /\ extraLatencyResult[1].packetLoss = FloatDiv(100, 3)
  /\ failedPings = 5

Inflight(tasks) == \E t \in DOMAIN tasks : tasks[t] = "inflight"

\* C3: no upload goroutine exists, let alone has a request in flight, until
\* all Concurrent download goroutines have returned, whatever they returned.
C3_UploadsAfterAllDownloads ==
  /\ ulTask # <<>> =>
       /\ Len(dlTask) = config.Concurrent
       /\ \A t \in DOMAIN dlTask : dlTask[t] = "done"
       /\ Len(downloadResults) + acc.downloadCount <= config.Concurrent
  /\ ~(Inflight(dlTask) /\ Inflight(ulTask))
  /\ config.Concurrent >= 1

C3_Witness ==
  /\ config.Concurrent >= 2
  /\ Inflight(ulTask)
  /\ BagIn(Nil, deposited.download)
  /\ \A t \in DOMAIN dlTask : dlTask[t] = "done"

\* the successful outcomes of a bag of outcomes
Successes(B) == {o \in BagToSet(B) : o.ok}

RECURSIVE TotalOver(_, _, _)
TotalOver(S, B, w) ==
  IF S = {} THEN 0
  ELSE LET x == CHOOSE y \in S : TRUE
       IN B[x] * w[x] + TotalOver(S \ {x}, B, w)

BytesIn(B) == TotalOver(Successes(B), B, [o \in BagToSet(B) |-> o.bytes])

TimeIn(B) == TotalOver(Successes(B), B, [o \in BagToSet(B) |-> o.duration])

CountIn(B) == TotalOver(Successes(B), B, [o \in BagToSet(B) |-> 1])

\* speed is bytes / (time / Second), as an equation between whole numbers
IsSpeed(speed, bytes, time) ==
  /\ IsFinite(speed)
  /\ speed.num * time = speed.den * bytes * Second

\* C4: in each direction the speed of the returned Result is the bytes of the
\* successful outcomes over their average duration (total / count, in whole
\* duration units), a function of the bag of outcomes deposited alone, not of
\* the order they were deposited or collected in; nil outcomes add nothing.
C4_SpeedFromBagOfOutcomes ==
  pc = "done" =>
    /\ BagCardinality(deposited.download) = config.Concurrent
    /\ BagCardinality(deposited.upload) = config.Concurrent
    /\ CountIn(deposited.download) > 0 =>
         /\ result.DownloadSize = BytesIn(deposited.download)
         /\ result.DownloadTime =
              TimeIn(deposited.download) \div CountIn(deposited.download)
         /\ IsSpeed(result.DownloadSpeed, BytesIn(deposited.download),
                    TimeIn(deposited.download) \div CountIn(deposited.download))
    /\ CountIn(deposited.upload) > 0 =>
         /\ result.UploadSize = BytesIn(deposited.upload)
         /\ result.UploadTime =
              TimeIn(deposited.upload) \div CountIn(deposited.upload)
         /\ IsSpeed(result.UploadSpeed, BytesIn(deposited.upload),
                    TimeIn(deposited.upload) \div CountIn(deposited.upload))

C4_Witness ==
  /\ pc = "done"
  /\ config.Concurrent = 2
  /\ deposited.download = SetToBag({DownloadResult(1, 1), DownloadResult(0, 2)})
  /\ deposited.upload = SetToBag({Nil, DownloadResult(1, 2)})
  /\ result.DownloadSpeed = FloatDiv(Second, 1)
  /\ result.UploadSpeed = FloatDiv(Second, 2)

\* C5: a direction none of whose chunks succeeded has speed, size and time
\* zero in the returned Result, whatever the other direction did; the
\* aggregation never divides by a zero count or a zero elapsed time.
C5_NoSuccessMeansZero ==
  /\ pc # "panic"
  /\ IsFinite(result.DownloadSpeed)
  /\ IsFinite(result.UploadSpeed)
  /\ pc = "done" =>
       /\ CountIn(deposited.download) = 0 =>
            /\ result.DownloadSpeed = Zero
            /\ result.DownloadSize = 0
            /\ result.DownloadTime = 0
       /\ CountIn(deposited.upload) = 0 =>
            /\ result.UploadSpeed = Zero
            /\ result.UploadSize = 0
            /\ result.UploadTime = 0
       /\ CountIn(deposited.download) > 0 => result.DownloadTime > 0
       /\ CountIn(deposited.upload) > 0 => result.UploadTime > 0

C5_Witness ==
  /\ pc = "done"
  /\ config.Concurrent = 2
  /\ CountIn(deposited.download) = 0
  /\ CountIn(deposited.upload) = 2
  /\ result.DownloadSpeed = Zero
  /\ result.UploadSpeed # Zero

\* the sum of a list, index by index
TotalOf(l) == TotalOver(DOMAIN l, [k \in DOMAIN l |-> 1], l)

\* C7: calculateLatencyStats gives average 0 and jitter 0 for no successful
\* sample, jitter 0 and the sample itself for one sample, and otherwise the
\* mean of the samples in whole duration units as the average.
C7_StatsOfSuccessfulSamples ==
  statsOut # <<>> =>
    LET out == statsOut[1]
        l == statsIn.latencies
        n == Len(l)
    IN /\ n = 0 => out.avgLatency = 0 /\ out.jitter = 0
       /\ n = 1 => out.avgLatency = l[1] /\ out.jitter = 0
       /\ n >= 1 => /\ out.avgLatency * n <= TotalOf(l)
                    /\ TotalOf(l) < (out.avgLatency + 1) * n
                    /\ out.jitter >= 0
       /\ IsFinite(out.packetLoss)

C7_Witness ==
  /\ statsOut # <<>>
  /\ statsIn.latencies = <<>>
  /\ statsIn.failedPings = StatsSamples
  /\ statsOut[1] = [avgLatency |-> 0, jitter |-> 0, packetLoss |-> Hundred]

\* x >= t, and x >= t * 1024 * 1024, for finite x and t
AtLeast(x, t) == x.num * t.den >= t.num * x.den

AtLeastMB(x, t) == x.num * t.den >= t.num * 1024 * 1024 * x.den

\* usable(r) as the specification words it
Usable(r) ==
  /\ r.Latency <= flags.maxLatency \/ flags.maxLatency = 0
  /\ r.ExtraURLConnectivity
  /\ AtLeastMB(r.ExtraURLOpenSpeed, flags.openSpeedThreshold)
       \/ flags.extraConnectURL = ""
  /\ AtLeastMB(r.DownloadSpeed, flags.minSpeed)
  /\ AtLeastMB(r.ExtraDownloadSpeed, flags.minSpeed)
       \/ flags.extraDownloadURL = ""

Elements(l) == {l[k] : k \in DOMAIN l}

Occurrences(l, r) == Cardinality({k \in DOMAIN l : l[k] = r})

\* C8: isProxyUsable is exactly the five-part condition, and the result set
\* holds the Results handed to the callback for which it is true, and no other.
C8_OnlyUsableResultsKept ==
  /\ \A r \in Elements(handed) \cup Elements(proxies) :
       isProxyUsable(r, flags) <=> Usable(r)
  /\ \A r \in Elements(handed) \cup Elements(results) :
       Occurrences(results, r) = IF Usable(r) THEN Occurrences(handed, r) ELSE 0

C8_Witness ==
  /\ flags.extraConnectURL # ""
  /\ flags.extraDownloadURL # ""
  /\ flags.maxLatency # 0
  /\ flags.minSpeed # Zero
  /\ proxies = <<>>
  /\ Len(handed) = 1
  /\ results = handed

\* C9: isProxyGood is isProxyUsable and the three comparisons with the good
\* thresholds, so that a good Result is a usable one.
C9_GoodIsUsableAndAboveGoodThresholds ==
  \A r \in Elements(handed) \cup Elements(proxies) :
    /\ isProxyGood(r, flags) <=>
         /\ Usable(r)
         /\ AtLeast(r.DownloadSpeed, flags.goodDownloadSpeedThreshold)
         /\ AtLeast(r.ExtraURLOpenSpeed, flags.goodOpenSpeedThreshold)
              \/ flags.extraConnectURL = ""
         /\ AtLeast(r.ExtraDownloadSpeed, flags.goodDownloadSpeedThreshold)
              \/ flags.extraDownloadURL = ""
    /\ isProxyGood(r, flags) => isProxyUsable(r, flags)

C9_Witness ==
  /\ mpc = "sorted"
  /\ flags.extraConnectURL # ""
  /\ \E g, u, n \in Elements(handed) :
       /\ isProxyGood(g, flags)
       /\ isProxyUsable(u, flags) /\ ~isProxyGood(u, flags)
       /\ ~isProxyUsable(n, flags)
       /\ results \in {<<g, u>>}

Equivalent(a, b) == ~less(a, b, flags) /\ ~less(b, a, flags)

\* C10: less is a strict weak ordering of the Results to be tested, and the
\* sorted result set has every good Result before every other, with download
\* speeds that never increase within the good and within the others.
C10_RankingIsStrictWeakOrder ==
  /\ handed = <<>> =>
       \A a, b, c \in Elements(proxies) :
         /\ ~less(a, a, flags)
         /\ less(a, b, flags) => ~less(b, a, flags)
         /\ less(a, b, flags) /\ less(b, c, flags) => less(a, c, flags)
         /\ Equivalent(a, b) /\ Equivalent(b, c) => Equivalent(a, c)
  /\ mpc = "sorted" =>
       \A x, y \in DOMAIN results :
         x < y =>
           /\ isProxyGood(results[y], flags) => isProxyGood(results[x], flags)
           /\ isProxyGood(results[x], flags) = isProxyGood(results[y], flags)
                => AtLeast(results[x].DownloadSpeed, results[y].DownloadSpeed)

C10_Witness ==
  LET R1 == Measured(1, SlowSpeed, FloatDiv(5, 1), Zero)
      R2 == Measured(1, SlowSpeed, FloatDiv(3, 1), Zero)
      R3 == Measured(1, Zero, FloatDiv(100, 1), Zero)
  IN /\ mpc = "sorted"
     /\ handed = <<R3, R2, R1>>
     /\ results = <<R1, R2, R3>>
     /\ isProxyGood(R1, flags) /\ isProxyGood(R2, flags)
     /\ ~isProxyGood(R3, flags)

\* testProxy has returned for a proxy whose 6 primary pings all failed, or
\* one of whose auxiliary URLs failed all 6 of its probes
FailedRun ==
  /\ pc = "done"
  /\ current # ""
  /\ requests.primaryFailed = 6 \/ \E u \in URLs : Dead(u)

\* settings of the thresholds and of the two auxiliary flags
ThresholdSettings ==
  {[f EXCEPT !.extraConnectURL = cu, !.extraDownloadURL = du] :
     f \in {DefaultFlags, LenientFlags}, cu \in {"", "u"}, du \in {"", "d"}}

\* C11: the Result of a proxy with total primary loss or with an unreachable
\* auxiliary URL is handed to the callback, once, is neither usable nor good
\* under any setting of the thresholds, and is never in the result set.
C11_FailedProxyHandedButNeverKept ==
  /\ [](\A k \in DOMAIN results :
          results[k].PacketLoss # Hundred /\ results[k].ExtraURLConnectivity)
  /\ [][FailedRun =>
          /\ \A f \in ThresholdSettings \cup {flags} :
               ~isProxyUsable(result, f) /\ ~isProxyGood(result, f)
          /\ called[current] = 0
          /\ called' = [called EXCEPT ![current] = 1]
          /\ handed' = Append(handed, result)
          /\ results' = results]_vars

C11_Witness ==
  /\ mpc = "sorted"
  /\ flags.maxLatency = 0
  /\ flags.minSpeed = Zero
  /\ flags.extraConnectURL # ""
  /\ Len(handed) = 2
  /\ handed[1].PacketLoss = Hundred
  /\ handed[2].PacketLoss # Hundred /\ ~handed[2].ExtraURLConnectivity
  /\ called = [p \in ProxyNames |-> 1]
  /\ results = <<>>

\* testExtraLatencyAndSpeed has returned and no auxiliary URL was unreachable
ExtraStagePassed ==
  /\ pc \in {"startDownload", "waitDownload", "startUpload", "waitUpload",
             "collectDownload", "collectUpload", "aggregate", "done"}
  /\ requests.primaryFailed < 6
  /\ \A u \in URLs : ~Dead(u)

\* C12: once the auxiliary URLs, if any, have all answered, exactly one
\* download is requested from a configured auxiliary download URL; if it
\* fails the auxiliary download speed is zero, and all the same the Result
\* has connectivity true and both throughput phases run before it is
\* returned.  With no auxiliary URL the open speed is zero.
C12_ExtraDownloadProbedOnceFailureTolerated ==
  /\ requests.extraDownload =
       IF ExtraStagePassed /\ config.ExtraDownloadURL # "" THEN 1 ELSE 0
  /\ ExtraStagePassed =>
       /\ result.ExtraURLConnectivity
       /\ requests.extraDownloadFailed = 1 => result.ExtraDownloadSpeed = Zero
       /\ Len(config.ExtraConnectURL) = 0 => result.ExtraURLOpenSpeed = Zero
       /\ pc = "done" => /\ requests.download = config.Concurrent
                         /\ requests.upload = config.Concurrent

C12_Witness ==
  /\ pc = "done"
  /\ config.ExtraDownloadURL # ""
  /\ Len(config.ExtraConnectURL) = 0
  /\ requests.extraDownload = 1
  /\ requests.extraDownloadFailed = 1
  /\ result.ExtraURLConnectivity
  /\ result.ExtraDownloadSpeed = Zero
  /\ result.ExtraURLOpenSpeed = Zero
  /\ result.DownloadSpeed # Zero
  /\ result.UploadSpeed # Zero

DoneTasks(tasks) == Cardinality({t \in DOMAIN tasks : tasks[t] = "done"})

\* outcomes the collector has read from a channel so far
ReadSoFar(stage) ==
  IF pc = stage THEN i
  ELSE IF pc \in {"aggregate", "done"} \/ (stage = "collectDownload" /\ pc = "collectUpload")
       THEN config.Concurrent
       ELSE 0

RECURSIVE BagOfSeq(_)
BagOfSeq(q) == IF q = <<>> THEN EmptyBag ELSE SetToBag({Head(q)}) (+) BagOfSeq(Tail(q))

\* C13: every task of a phase that has returned has deposited exactly one
\* outcome, a result or nil, whatever its siblings returned; every deposit
\* is in the channel until the collector reads it; the collector reads
\* Concurrent outcomes per direction, and successes and failures add up to
\* Concurrent.
C13_OneDepositPerTaskNoneLost ==
  /\ BagCardinality(deposited.download) = DoneTasks(dlTask)
  /\ BagCardinality(deposited.upload) = DoneTasks(ulTask)
  /\ Len(dlTask) <= config.Concurrent /\ Len(ulTask) <= config.Concurrent
  /\ Len(downloadResults) + ReadSoFar("collectDownload")
       = BagCardinality(deposited.download)
  /\ Len(uploadResults) + ReadSoFar("collectUpload")
       = BagCardinality(deposited.upload)
  /\ BagOfSeq(downloadResults) \sqsubseteq deposited.download
  /\ BagOfSeq(uploadResults) \sqsubseteq deposited.upload
  /\ pc \in {"collectDownload", "collectUpload", "aggregate", "done"} =>
       /\ DoneTasks(dlTask) = config.Concurrent
       /\ DoneTasks(ulTask) = config.Concurrent
       /\ requests.download = config.Concurrent
       /\ requests.upload = config.Concurrent
  /\ pc \in {"aggregate", "done"} =>
       /\ downloadResults = <<>> /\ uploadResults = <<>>
       /\ acc.downloadCount = CountIn(deposited.download)
       /\ acc.uploadCount = CountIn(deposited.upload)
       /\ acc.downloadCount + CopiesIn(Nil, deposited.download) = config.Concurrent
       /\ acc.uploadCount + CopiesIn(Nil, deposited.upload) = config.Concurrent

C13_Witness ==
  /\ pc = "done"
  /\ config.Concurrent = 2
  /\ CopiesIn(Nil, deposited.download) = 1
  /\ CountIn(deposited.download) = 1
  /\ CopiesIn(Nil, deposited.upload) = 2
  /\ acc.downloadCount = 1
  /\ acc.uploadCount = 0


\* the paths main's loop is done with
LoadedPaths == DOMAIN disk \ Elements(actualPaths)

\* C14: an entry of a configuration file that cannot be resolved excludes
\* only itself: once main is done with a file, every entry of its proxies
\* list that resolves to a proxy of a supported type has been tested.
C14_UnresolvableEntryExcludesOnlyItself ==
  \A path \in LoadedPaths :
    \A k \in DOMAIN disk[path].Proxies :
      LET proxy == ParseProxy(disk[path].Proxies[k])
      IN (/\ ~proxy.err
          /\ proxy.type \in SupportedTypes
          /\ \A j \in DOMAIN disk[path].Proxies :
                j # k => ParseProxy(disk[path].Proxies[j]).name # proxy.name)
         => <<path, <<"", proxy.name>>>> \in tested

\* the Results doSaveConfig was given for the file of a kind
SavedSet(kind) ==
  IF kind = "good" THEN goodResults(results, flags) ELSE results

\* C15: every Result of a saved set, its proxy from the proxies list or from
\* a provider, is found again with the name and the type of the proxy
\* tested when LoadProxies reads the saved file.
C15_SavedResultsReloadWithNameAndType ==
  \A kind \in DOMAIN reloaded :
    \A k \in DOMAIN SavedSet(kind) :
      /\ ~reloaded[kind].err
      /\ \E key \in DOMAIN reloaded[kind].proxies :
           /\ reloaded[kind].proxies[key].name = SavedSet(kind)[k].proxy.name
           /\ reloaded[kind].proxies[key].type = SavedSet(kind)[k].proxy.type


\* the proxies of the map: those to come, the one under test, those done
Accounted ==
  toTest \cup {p \in ProxyNames : p = current \/ called[p] = 1}

\* C16: with every request returning, every proxy of the map is tested to
\* the end and handed to the callback exactly once, one proxy at a time: no
\* goroutine stays blocked on its send, the collector on no receive, and
\* TestProxies returns with every proxy of the map handed over.
C16_EveryProxyTestedOnceRunEnds ==
  /\ [](/\ \A p \in ProxyNames : called[p] <= 1 /\ (p \in toTest => called[p] = 0)
        /\ current # "" => current \notin toTest /\ called[current] = 0
        /\ pc # "idle" => current # "")
  /\ [][Accounted' = Accounted]_vars
  /\ <>[](/\ mpc = "sorted" /\ pc = "idle" /\ toTest = {} /\ current = ""
          /\ dlTask = <<>> /\ ulTask = <<>>)

C16_Witness ==
  /\ mpc = "sorted"
  /\ called = [p \in ProxyNames |-> 1]
  /\ Len(handed) = 2
  /\ \A k \in 1..2 : handed[k].DownloadSize > 0 /\ handed[k].UploadSize > 0


\* C17: the good thresholds are in MB/s: a Result isProxyGood accepts has a
\* download speed of at least good-download-speed-threshold x 1024 x 1024
\* bytes per second, and likewise an auxiliary open speed and an auxiliary
\* download speed where those are configured.
C17_GoodThresholdsInMegabytes ==
  \A r \in Elements(handed) \cup Elements(proxies) :
    isProxyGood(r, flags) =>
      /\ AtLeastMB(r.DownloadSpeed, flags.goodDownloadSpeedThreshold)
      /\ AtLeastMB(r.ExtraURLOpenSpeed, flags.goodOpenSpeedThreshold)
           \/ flags.extraConnectURL = ""
      /\ AtLeastMB(r.ExtraDownloadSpeed, flags.goodDownloadSpeedThreshold)
           \/ flags.extraDownloadURL = ""


\* the flags with no auxiliary download URL asked for
WithoutDownloadURL == [flags EXCEPT !.extraDownloadURL = ""]

\* C18: a non-empty extra-download-url flag reaches the engine's Config, a
\* proxy that passed the latency and auxiliary connectivity stages gets one
\* auxiliary download probe, and no Result is rejected by isProxyUsable on
\* an auxiliary download speed the engine never measured.
C18_ExtraDownloadURLReachesEngine ==
  flags.extraDownloadURL # "" =>
    /\ ExtraStagePassed =>
         /\ config.ExtraDownloadURL = flags.extraDownloadURL
         /\ requests.extraDownload = 1
    /\ (pc = "done" /\ requests.extraDownload = 0
          /\ isProxyUsable(result, WithoutDownloadURL))
         => isProxyUsable(result, flags)


\* the files the configured paths name or hold
Reached ==
  {f \in Files : \E k \in DOMAIN cfgPaths :
     /\ ~httpRegex(cfgPaths[k])
     /\ Abs(cfgPaths[k]) = f \/ HasPrefix(f, Abs(cfgPaths[k]) \o <<"/">>)}

\* the configured links, and the yaml files reached that are not skipped
Qualified ==
  {cfgPaths[k] : k \in {n \in DOMAIN cfgPaths : httpRegex(cfgPaths[n])}}
  \cup {f \in Reached : isYamlFile(f) /\ ~isSkipped(f, absSkipPaths)}

\* C19: getAllConfigPath returns the configured http(s) links and the
\* existing yaml files reached from the configured paths that are not
\* skipped, and nothing else, no empty string in particular; with nothing
\* that qualifies the list is empty and main exits before loading a proxy.
C19_ExactlyTheQualifiedPaths ==
  gpc = "returned" =>
    /\ Elements(actualPaths) = Qualified
    /\ <<>> \notin Elements(actualPaths)
    /\ Qualified = {} => actualPaths = <<>> /\ mpc = "exited"

\* C20: with the skip-paths flag empty nothing is skipped: every existing
\* yaml file the configured paths name or hold is returned, those under the
\* working directory too.
C20_EmptySkipPathsSkipsNothing ==
  (gpc = "returned" /\ flags.skipPaths = <<>>) =>
    \A f \in Reached : isYamlFile(f) => f \in Elements(actualPaths)


\* the files saveConfig is to write, in the order it writes them
WantedFiles ==
  (IF flags.goodOutputPath # "" THEN <<"good">> ELSE <<>>)
  \o (IF flags.outputPath # "" THEN <<"output">> ELSE <<>>)

\* C21: doSaveConfig returns normally after a write that succeeded and ends
\* the program only on a write that failed: the program has ended in
\* log.Fatalln exactly when a write failed, and when every write made
\* succeeded, every file asked for was written, the good file and then the
\* output file.
C21_FatalOnlyOnFailedWrite ==
  mpc \in {"exited", "finished"} =>
    /\ mpc = "exited" <=> \E k \in DOMAIN writes : ~writes[k].ok
    /\ (\A k \in DOMAIN writes : writes[k].ok) =>
         /\ [k \in DOMAIN writes |-> writes[k].kind] = WantedFiles
         /\ DOMAIN written = Elements(WantedFiles)


\* C22: every response a probe obtains has its body closed before the probe
\* ends, whatever its status: after no request of the latency loop, of an
\* auxiliary URL's loop, of a download or of an upload is a response left
\* open.
C22_NoResponseLeftOpen == requests.unclosed = 0

====
